---- MODULE Spec2Model ----
(***************************************************************************)
(* Model of the transactional core of mastara-saas: the transaction        *)
(* orchestrator (pgxTxManager.ExecTx), the guest upsert                    *)
(* (FindOrCreateGuest), the profile repository (FindByID, Update, Create,  *)
(* List) and the profile lifecycle service (FindOrCreateGuestForBooking,   *)
(* RegisterNewPatient, CompleteGuestRegistration) running as concurrent    *)
(* requests against one PostgreSQL database (READ COMMITTED, the default   *)
(* of pool.Begin) through a bounded connection pool.                       *)
(*                                                                         *)
(* Every request is one call.  The row a call inserts gets the call's      *)
(* number as its identifier (uuid.NewV7 is unique per call) and as its     *)
(* name (the name_i of call i).                                            *)
(***************************************************************************)
EXTENDS Integers, Sequences, FiniteSets, TLC

\* ---------------------------------------------------------------- bounds
NumCalls == 3
PoolSize == 2
MaxFaults == 1

Calls == 1..NumCalls
Conns == 1..PoolSize
Tenants == {"A", "B"}
Phone == "p1"

\* ------------------------------------------------------------ data model
NULL == "NULL"
Nil == [nil |-> TRUE]

ProfileStatusGuest == "GUEST"
ProfileStatusRegistered == "REGISTERED"
ProfileStatusArchived == "ARCHIVED"
ProfileStatus == {ProfileStatusGuest, ProfileStatusRegistered, ProfileStatusArchived}

\* A row of the profiles table (the columns the operations read or write).
Profile(id, clinic, name, phone, email, nid, dob, status) ==
    [id |-> id, clinic |-> clinic, name |-> name, phone |-> phone, email |-> email,
     nid |-> nid, dob |-> dob, status |-> status, deleted |-> FALSE]

\* The fields a registration or completion request carries (ProfileUpdater).
ReqFullName(p) == p
ReqEmail(p) == "e1"
ReqNationalID(p) == "nid"
ReqDateOfBirth(p) == "dob"

\* An error value is its chain of layers, outermost first; the nil error is <<>>.
ErrNil == << >>
Wrap(layer, e) == <<layer>> \o e
ErrNoRows == <<"pgx.ErrNoRows">>
ErrDB == <<"db">>
ErrCanceled == <<"context canceled">>
ErrForeignKey == <<"23503">>
NewBadRequest(e) == Wrap("api400", e)
NewNotFound(e) == Wrap("api404", e)
NewInternalServer(e) == Wrap("api500", e)
\* Not error values: fn was not called; no return statement was reached; a panic
\* unwinds the stack.
NotRun == <<"notrun">>
Pending == <<"pending">>
Panic == <<"panic">>

VARIABLES
    profiles,   \* the committed rows of the profiles table
    txw,        \* txw[p]: the rows call p's open transaction has written, uncommitted
    connOwner,  \* connOwner[c]: the call whose transaction holds pooled connection c, 0 when idle
    connAudit,  \* connAudit[c]: app.audit_context on connection c (0: unset, else the acting call)
    pc,         \* pc[p]: where call p stands
    call,       \* call[p]: the operation, its arguments, and in `after` the calls
                \* that had returned when it was made
    tx,         \* tx[p]: "none", "open" or "closed" (the pgx.Tx handle)
    fin,        \* fin[p]: the commits and rollbacks that took effect on p's transaction
    snap,       \* snap[p]: the rows the running upsert statement's snapshot shows for its key
    existing,   \* existing[p]: fn's local variable `existing`
    profile,    \* profile[p]: the service method's variable `profile`, which it returns
    listed,     \* listed[p]: the page ListProfiles returns
    fnRet,      \* fnRet[p]: what fn returned to ExecTx (NotRun, Panic or an error value)
    err,        \* err[p]: what the call returns (Pending until it reaches a return)
    persisted,  \* persisted[p]: the rows call p made durable
    logged,     \* the audit records the trigger of the profiles table has built
    faults,     \* environment failures still to be injected
    auth        \* the login computing an employee's AuthPayload

svars == <<profiles, txw, connOwner, connAudit, pc, call, tx, fin, snap, existing,
           profile, listed, fnRet, err, persisted, logged, faults>>

vars == <<svars, auth>>

NoCall ==
    [op |-> "none", clinic |-> "A", target |-> 0, status |-> ProfileStatusGuest,
     contact |-> "phone", after |-> {}]

\* No login is under way.
NoAuth == [stage |-> "none"]

\* The state after construction, the profiles table holding the given rows,
\* with the number of failures that may still be injected and the login a.
InitWith(rows, budget, a) ==
    /\ profiles = rows
    /\ txw = [p \in Calls |-> {}]
    /\ connOwner = [c \in Conns |-> 0]
    /\ connAudit = [c \in Conns |-> 0]
    /\ pc = [p \in Calls |-> "idle"]
    /\ call = [p \in Calls |-> NoCall]
    /\ tx = [p \in Calls |-> "none"]
    /\ fin = [p \in Calls |-> << >>]
    /\ snap = [p \in Calls |-> {}]
    /\ existing = [p \in Calls |-> Nil]
    /\ profile = [p \in Calls |-> Nil]
    /\ listed = [p \in Calls |-> {}]
    /\ fnRet = [p \in Calls |-> NotRun]
    /\ err = [p \in Calls |-> Pending]
    /\ persisted = [p \in Calls |-> {}]
    /\ logged = {}
    /\ faults = budget
    /\ auth = a

Init == InitWith({}, MaxFaults, NoAuth)

\* A profile of tenant A with the phone of the requests, soft-deleted before
\* the service started (deleted_at IS NOT NULL): no operation of the service
\* sets deleted_at, the table may hold such rows all the same.
DeletedID == NumCalls + 1
DeletedRow ==
    [Profile(DeletedID, "A", DeletedID, Phone, NULL, NULL, NULL, ProfileStatusRegistered)
        EXCEPT !.deleted = TRUE]

SoftDeletedInit == InitWith({DeletedRow}, 0, NoAuth)

\* ------------------------------------------------- the database (PostgreSQL)
\* deleted_at IS NULL
Active(r) == ~r.deleted

\* The partial unique indexes of the profiles table: a row is in the index when
\* its key column is not null and it is not soft-deleted.
PhoneKey(r, clinic, phone) ==
    r.clinic = clinic /\ r.phone = phone /\ r.phone # NULL /\ Active(r)

EmailKey(r, clinic, email) ==
    r.clinic = clinic /\ r.email = email /\ r.email # NULL /\ Active(r)

\* The table as a transaction that wrote the rows w sees it: its own row
\* versions replace the committed ones.
Overlay(base, w) == {r \in base : \A x \in w : x.id # r.id} \cup w

\* What a statement run on the querier of call p reads: the committed rows and,
\* through its own open transaction, the rows it wrote itself.
TxView(p) == Overlay(profiles, txw[p])

\* The uncommitted row versions of the other open transactions.
Uncommitted(p) == UNION {txw[q] : q \in Calls \ {p}}

\* A write that would collide in a unique index with an uncommitted row of
\* another transaction, or that targets a row another open transaction wrote,
\* waits until that transaction ends.
WriteWaits(p, row) ==
    \E r \in Uncommitted(p) :
        \/ r.id = row.id
        \/ PhoneKey(r, row.clinic, row.phone)
        \/ EmailKey(r, row.clinic, row.email)

\* ---------------------------------------------------------- the repository
\* The insert overwriting the name of the row it conflicts with (DO UPDATE SET
\* full_name = EXCLUDED.full_name) where DO NOTHING is meant.
NewRow_DoUpdate(cur, newID, clinicID, fullName, phoneNumber) ==
    IF \E r \in cur : PhoneKey(r, clinicID, phoneNumber)
    THEN {[r EXCEPT !.name = fullName] : r \in {x \in cur : PhoneKey(x, clinicID, phoneNumber)}}
    ELSE {Profile(newID, clinicID, fullName, phoneNumber, NULL, NULL, NULL,
                  ProfileStatusGuest)}

\* INSERT ... VALUES ($1, $2, $3, $4, 'GUEST') ON CONFLICT (clinic_id, phone_number)
\* WHERE deleted_at IS NULL DO NOTHING RETURNING ...: the rows of new_row, given the
\* rows `cur` the insert's uniqueness check meets.  The conflict target is taken
\* to name idx_profiles_unique_active_phone_per_clinic, the one unique index on
\* (clinic_id, phone_number).
NewRow(cur, newID, clinicID, fullName, phoneNumber) ==
    IF \E r \in cur : PhoneKey(r, clinicID, phoneNumber)
    THEN {}
    ELSE {Profile(newID, clinicID, fullName, phoneNumber, NULL, NULL, NULL,
                  ProfileStatusGuest)}

\* SELECT ... FROM profiles WHERE clinic_id = $2 AND phone_number = $4 AND
\* deleted_at IS NULL, read from the statement's snapshot.
SelectByPhone(snapshot, clinicID, phoneNumber) ==
    {r \in snapshot : r.clinic = clinicID /\ r.phone = phoneNumber /\ Active(r)}

\* SELECT * FROM new_row UNION ALL SELECT ... LIMIT 1: the rows of new_row come
\* first.
UnionAllLimit1(first, second) ==
    IF first # {} THEN {CHOOSE r \in first : TRUE}
    ELSE IF second # {} THEN {CHOOSE r \in second : TRUE}
    ELSE {}

\* FindOrCreateGuest: the (profile, err) it returns for the rows the query gave.
FindOrCreateGuest(rows) ==
    IF rows = {}
    THEN [profile |-> Nil,
          err |-> Wrap("profile_repo: critical upsert failure for guest", ErrNoRows)]
    ELSE [profile |-> CHOOSE r \in rows : TRUE, err |-> ErrNil]

\* FindOrCreateGuest when the statement itself fails: any error but
\* pgx.ErrNoRows.
FindOrCreateGuestFailed(cause) ==
    [profile |-> Nil, err |-> Wrap("profile_repo: query execution failed", cause)]

\* The query of FindByID without its clinic_id = $1.
FindByIDRows_AnyClinic(rows, clinicID, profileID) ==
    {r \in rows : r.id = profileID /\ Active(r)}

\* FindByID: SELECT ... WHERE clinic_id = $1 AND id = $2 AND deleted_at IS NULL.
FindByIDRows(rows, clinicID, profileID) ==
    {r \in rows : r.clinic = clinicID /\ r.id = profileID /\ Active(r)}

FindByID(rows, clinicID, profileID) ==
    LET found == FindByIDRows(rows, clinicID, profileID)
    IN  IF found = {}
        THEN [profile |-> Nil, err |-> NewNotFound(ErrNoRows)]
        ELSE [profile |-> CHOOSE r \in found : TRUE, err |-> ErrNil]

\* FindByID when the statement itself fails.
FindByIDFailed(cause) ==
    [profile |-> Nil, err |-> Wrap("store.FindByID: failed to query profile", cause)]

\* List: SELECT ... WHERE clinic_id = $1 AND deleted_at IS NULL (one page holds
\* every row of the model).
List(rows, clinicID) == {r \in rows : r.clinic = clinicID /\ Active(r)}

\* Update: UPDATE profiles SET full_name, phone_number, email, national_id,
\* date_of_birth, profile_status WHERE id = $8 AND clinic_id = $9.
UpdateTargets(rows, prof) == {r \in rows : r.id = prof.id /\ r.clinic = prof.clinic}

UpdateNewVersion(r, prof) ==
    [r EXCEPT !.name = prof.name, !.phone = prof.phone, !.email = prof.email,
              !.nid = prof.nid, !.dob = prof.dob, !.status = prof.status]

\* The table without idx_profiles_unique_active_email_per_clinic.
UniqueViolation_PhoneOnly(rows, new) ==
    /\ Active(new)
    /\ \E r \in rows : r.id # new.id /\ PhoneKey(r, new.clinic, new.phone)

\* The new version would be a second active row of its (clinic, phone) or
\* (clinic, email): SQLSTATE 23505.
UniqueViolation(rows, new) ==
    /\ Active(new)
    /\ \E r \in rows :
          /\ r.id # new.id
          /\ \/ PhoneKey(r, new.clinic, new.phone)
             \/ EmailKey(r, new.clinic, new.email)

\* Update's outcome on the rows its statement meets: the row versions it
\* writes and the error it returns.
Update(rows, prof) ==
    LET targets == UpdateTargets(rows, prof)
        new == {UpdateNewVersion(r, prof) : r \in targets}
    IN  IF \E n \in new : UniqueViolation(rows, n)
        THEN [written |-> {},
              err |-> Wrap("store.Update: failed to execute update", <<"23505">>)]
        ELSE IF targets = {}
        THEN [written |-> {}, err |-> NewNotFound(ErrNil)]
        ELSE [written |-> new, err |-> ErrNil]

\* upsertProfile: the request's fields are written into the profile, which is
\* then updated through the transaction.
ApplyRequest(prof, p) ==
    [prof EXCEPT !.name = ReqFullName(p), !.email = ReqEmail(p),
                 !.nid = ReqNationalID(p), !.dob = ReqDateOfBirth(p)]

upsertProfile(rows, prof, p) ==
    LET u == Update(rows, ApplyRequest(prof, p))
    IN  IF u.err # ErrNil
        THEN [written |-> {}, profile |-> Nil,
              err |-> NewInternalServer(Wrap("failed to update profile", u.err))]
        ELSE [written |-> u.written, profile |-> ApplyRequest(prof, p), err |-> ErrNil]

\* ---------------------------------------------------------------- the pool
FreeConns == {c \in Conns : connOwner[c] = 0}
Acquire == CHOOSE c \in FreeConns : \A d \in FreeConns : c <= d
ConnOf(p) == CHOOSE c \in Conns : connOwner[c] = p

\* The connection kept by the call after its transaction ended.
Released_Kept(owner, p) == owner

\* The connection of p's transaction goes back to the pool; SET LOCAL ends with
\* the transaction.
Released(owner, p) == [c \in Conns |-> IF owner[c] = p THEN 0 ELSE owner[c]]

\* The audit context set for the session (SET) where SET LOCAL is meant: it
\* stays on the connection.
AuditReset_Session(p) == connAudit

AuditReset(p) == [c \in Conns |-> IF connOwner[c] = p THEN 0 ELSE connAudit[c]]

\* The trigger building its record without reading app.audit_context.
log_change_NoContext(c, op, rows, p) ==
    {[user |-> 0, action |-> op, record |-> r.id, conn |-> c, call |-> p] : r \in rows}

\* log_change(), the row trigger of the profiles table: the audit record of one
\* written row, its user read from app.audit_context of the connection c the
\* statement of call p runs on.
log_change(c, op, rows, p) ==
    {[user |-> connAudit[c], action |-> op, record |-> r.id, conn |-> c, call |-> p] :
        r \in rows}

\* ------------------------------------------------------------- the requests
Ops == {"Guest", "Register", "Complete", "Get", "List", "Create"}

\* The contact columns a created profile carries: chk_profile_contact_method
\* wants one of them at least.  The profiles created with an email are the
\* REGISTERED ones, as those of invited employees are.
Contacts == {"phone", "both", "email"}
CreatePhone(p) == IF call[p].contact = "email" THEN NULL ELSE Phone
CreateEmail(p) == IF call[p].contact = "phone" THEN NULL ELSE ReqEmail(p)

\* The staff routes run behind the Authenticator, so their context carries an
\* AuthPayload; the guest booking is public.
HasActor(p) == call[p].op \in {"Register", "Complete"}

\* The first statement of the fn each service method passes to ExecTx.
FnEntry(p) == IF call[p].op = "Complete" THEN "find" ELSE "upsert"

Start(p) ==
    /\ pc[p] = "idle"
    /\ \A q \in Calls : q < p => pc[q] # "idle"
    /\ \E op \in Ops, clinic \in Tenants, target \in {0} \cup {r.id : r \in profiles},
          status \in ProfileStatus, contact \in Contacts :
          /\ (op \in {"Complete", "Get"}) <=> (target # 0)
          /\ (op # "Create") => (status = ProfileStatusGuest /\ contact = "phone")
          /\ (contact # "phone") => (status = ProfileStatusRegistered)
          /\ call' = [call EXCEPT ![p] = [op |-> op, clinic |-> clinic,
                                          target |-> target, status |-> status,
                                          contact |-> contact,
                                          after |-> {q \in Calls : pc[q] = "done"}]]
          /\ pc' = [pc EXCEPT ![p] = CASE op = "Create" -> "create"
                                          [] op = "Get" -> "get"
                                          [] op = "List" -> "list"
                                          [] OTHER -> "begin"]
    /\ UNCHANGED <<auth, profiles, txw, connOwner, connAudit, tx, fin, snap, existing,
                   profile, listed, fnRet, err, persisted, faults, logged>>

\* How a statement run with the caller's context fails: the database or the
\* connection fails, or the context is cancelled or past its deadline.
StatementFailures == {ErrDB, ErrCanceled}

\* How the upsert statement fails: as any statement, or its clinic_id names no
\* row of clinics (the foreign key of profiles, SQLSTATE 23503).
UpsertFailures == StatementFailures \cup {ErrForeignKey}

\* ------------------------------------------------------------------ ExecTx
\* tx, err := m.pool.Begin(ctx): waits for a free pooled connection.
Begin(p) ==
    /\ pc[p] = "begin"
    /\ \/ /\ FreeConns # {}
          /\ connOwner' = [connOwner EXCEPT ![Acquire] = p]
          /\ tx' = [tx EXCEPT ![p] = "open"]
          /\ pc' = [pc EXCEPT ![p] = IF HasActor(p) THEN "audit" ELSE FnEntry(p)]
          /\ UNCHANGED <<err, faults>>
       \/ /\ faults > 0
          /\ faults' = faults - 1
          /\ err' = [err EXCEPT ![p] =
                        Wrap("tx_manager: failed to begin transaction", ErrDB)]
          /\ pc' = [pc EXCEPT ![p] = "done"]
          /\ UNCHANGED <<connOwner, tx>>
    /\ UNCHANGED <<auth, profiles, txw, connAudit, call, fin, snap, existing, profile,
                   listed, fnRet, persisted, logged>>

\* The audit statement with its error swallowed: fn runs without the context.
InjectAuditContext_Swallowed(p) ==
    /\ pc[p] = "audit"
    /\ \/ /\ connAudit' = [connAudit EXCEPT ![ConnOf(p)] = p]
          /\ UNCHANGED faults
       \/ /\ faults > 0
          /\ faults' = faults - 1
          /\ UNCHANGED connAudit
    /\ pc' = [pc EXCEPT ![p] = FnEntry(p)]
    /\ UNCHANGED <<auth, profiles, txw, connOwner, call, tx, fin, snap, existing, profile,
                   listed, fnRet, err, persisted, logged>>

\* SET LOCAL app.audit_context = $1, run when the context carries an AuthPayload;
\* the statement is taken to be one the server can accept, and it may fail.
InjectAuditContext(p) ==
    /\ pc[p] = "audit"
    /\ \/ /\ connAudit' = [connAudit EXCEPT ![ConnOf(p)] = p]
          /\ pc' = [pc EXCEPT ![p] = FnEntry(p)]
          /\ UNCHANGED <<err, faults>>
       \/ /\ faults > 0
          /\ faults' = faults - 1
          /\ \E cause \in StatementFailures :
                err' = [err EXCEPT ![p] =
                  Wrap("tx_manager: failed to set audit context (audit log integrity risk)",
                       cause)]
          /\ pc' = [pc EXCEPT ![p] = "defer"]
          /\ UNCHANGED connAudit
    /\ UNCHANGED <<auth, profiles, txw, connOwner, call, tx, fin, snap, existing, profile,
                   listed, fnRet, persisted, logged>>

\* The commit failure with its error dropped.
CommitFailed_Nil(cause) == ErrNil

\* return fmt.Errorf("tx_manager: failed to commit transaction: %w", err)
CommitFailed(cause) == Wrap("tx_manager: failed to commit transaction", cause)

\* tx.Commit(ctx): the transaction's rows become the committed ones; a commit
\* that fails before the server has run it leaves the transaction aborted.  The
\* context may also be cancelled while the COMMIT is with the server: the
\* driver gives up waiting and returns the context's error, the server commits.
\* In each case the handle is closed and its connection released.
Commit(p) ==
    /\ pc[p] = "commit"
    /\ \/ /\ profiles' = Overlay(profiles, txw[p])
          /\ persisted' = [persisted EXCEPT ![p] = txw[p]]
          /\ fin' = [fin EXCEPT ![p] = Append(@, "commit")]
          /\ err' = [err EXCEPT ![p] = ErrNil]
          /\ UNCHANGED faults
       \/ /\ faults > 0
          /\ faults' = faults - 1
          /\ fin' = [fin EXCEPT ![p] = Append(@, "rollback")]
          /\ \E cause \in StatementFailures :
                err' = [err EXCEPT ![p] = CommitFailed(cause)]
          /\ UNCHANGED <<profiles, persisted>>
       \/ /\ faults > 0
          /\ faults' = faults - 1
          /\ profiles' = Overlay(profiles, txw[p])
          /\ persisted' = [persisted EXCEPT ![p] = txw[p]]
          /\ fin' = [fin EXCEPT ![p] = Append(@, "commit")]
          /\ err' = [err EXCEPT ![p] = CommitFailed(ErrCanceled)]
    /\ txw' = [txw EXCEPT ![p] = {}]
    /\ tx' = [tx EXCEPT ![p] = "closed"]
    /\ connOwner' = Released(connOwner, p)
    /\ connAudit' = AuditReset(p)
    /\ pc' = [pc EXCEPT ![p] = "defer"]
    /\ UNCHANGED <<auth, call, snap, existing, profile, listed, fnRet, logged>>

\* The deferred function without its else branch: it rolls back only when it
\* recovered a panic.
DeferredGuard_PanicOnly(p) ==
    /\ pc[p] = "defer"
    /\ IF tx[p] = "open" /\ fnRet[p] = Panic
       THEN /\ txw' = [txw EXCEPT ![p] = {}]
            /\ tx' = [tx EXCEPT ![p] = "closed"]
            /\ fin' = [fin EXCEPT ![p] = Append(@, "rollback")]
            /\ connOwner' = Released(connOwner, p)
            /\ connAudit' = AuditReset(p)
       ELSE UNCHANGED <<txw, tx, fin, connOwner, connAudit>>
    /\ err' = [err EXCEPT ![p] = IF fnRet[p] = Panic THEN Panic ELSE @]
    /\ pc' = [pc EXCEPT ![p] = "done"]
    /\ UNCHANGED <<auth, profiles, call, snap, existing, profile, listed, fnRet, persisted,
                   faults, logged>>

\* The deferred function raising the recovered panic again without the rollback
\* before it.
DeferredGuard_NoRollbackOnPanic(p) ==
    /\ pc[p] = "defer"
    /\ IF tx[p] = "open" /\ fnRet[p] # Panic
       THEN /\ txw' = [txw EXCEPT ![p] = {}]
            /\ tx' = [tx EXCEPT ![p] = "closed"]
            /\ fin' = [fin EXCEPT ![p] = Append(@, "rollback")]
            /\ connOwner' = Released(connOwner, p)
            /\ connAudit' = AuditReset(p)
       ELSE UNCHANGED <<txw, tx, fin, connOwner, connAudit>>
    /\ err' = [err EXCEPT ![p] = IF fnRet[p] = Panic THEN Panic ELSE @]
    /\ pc' = [pc EXCEPT ![p] = "done"]
    /\ UNCHANGED <<auth, profiles, call, snap, existing, profile, listed, fnRet, persisted,
                   faults, logged>>

\* The deferred function: tx.Rollback(ctx) on both of its paths, a no-op
\* (pgx.ErrTxClosed, discarded) on a closed handle; a recovered panic is raised
\* again.
DeferredGuard(p) ==
    /\ pc[p] = "defer"
    /\ IF tx[p] = "open"
       THEN /\ txw' = [txw EXCEPT ![p] = {}]
            /\ tx' = [tx EXCEPT ![p] = "closed"]
            /\ fin' = [fin EXCEPT ![p] = Append(@, "rollback")]
            /\ connOwner' = Released(connOwner, p)
            /\ connAudit' = AuditReset(p)
       ELSE UNCHANGED <<txw, tx, fin, connOwner, connAudit>>
    /\ err' = [err EXCEPT ![p] = IF fnRet[p] = Panic THEN Panic ELSE @]
    /\ pc' = [pc EXCEPT ![p] = "done"]
    /\ UNCHANGED <<auth, profiles, call, snap, existing, profile, listed, fnRet, persisted,
                   faults, logged>>

\* ExecTx wrapping fn's error in one of its own before returning it.
FnReturns_Wrapped(p, e) ==
    /\ fnRet' = [fnRet EXCEPT ![p] = e]
    /\ err' = [err EXCEPT ![p] =
                  IF e = ErrNil THEN @ ELSE Wrap("tx_manager: transaction failed", e)]
    /\ pc' = [pc EXCEPT ![p] = IF e = ErrNil THEN "commit" ELSE "defer"]

\* if err := fn(tx); err != nil { return err }: ExecTx returns fn's error as it
\* is, and goes on to the commit when fn returned nil.
FnReturns(p, e) ==
    /\ fnRet' = [fnRet EXCEPT ![p] = e]
    /\ err' = [err EXCEPT ![p] = IF e = ErrNil THEN @ ELSE e]
    /\ pc' = [pc EXCEPT ![p] = IF e = ErrNil THEN "commit" ELSE "defer"]

\* fn panics: ExecTx reaches no return statement, the stack unwinds into the
\* deferred function.
FnPanics(p) ==
    /\ fnRet' = [fnRet EXCEPT ![p] = Panic]
    /\ pc' = [pc EXCEPT ![p] = "defer"]
    /\ UNCHANGED err

\* ------------------------------------------------- the fn of each operation
\* The upsert statement starts: its snapshot is taken (READ COMMITTED takes one
\* per statement).
UpsertBegin(p) ==
    /\ pc[p] = "upsert"
    /\ snap' = [snap EXCEPT ![p] = SelectByPhone(TxView(p), call[p].clinic, Phone)]
    /\ pc' = [pc EXCEPT ![p] = "upsert_exec"]
    /\ UNCHANGED <<auth, profiles, txw, connOwner, connAudit, call, tx, fin, existing,
                   profile, listed, fnRet, err, persisted, faults, logged>>

\* The upsert of a service fn run on s.db, the pool, where its own transaction
\* is meant.
UpsertQuerier_Pool == "pool"

\* The querier the fns of FindOrCreateGuestForBooking and RegisterNewPatient hand
\* to the upsert: tx, their own transaction.
UpsertQuerier == "tx"

\* The upsert statement runs to its end: the insert meets the rows committed by
\* now (after waiting for a transaction that holds an uncommitted row of its
\* key), the select reads the snapshot.  Then the fn of FindOrCreateGuestForBooking
\* (the profile is the result) or of RegisterNewPatient (the lookup) goes on.
UpsertExec(p) ==
    LET clinicID == call[p].clinic
    IN  /\ pc[p] = "upsert_exec"
        /\ snap' = [snap EXCEPT ![p] = {}]
        /\ \E cause \in {ErrNil} \cup (IF faults > 0 THEN UpsertFailures ELSE {}) :
              LET newRows == IF cause = ErrNil
                             THEN NewRow(TxView(p), p, clinicID, p, Phone)
                             ELSE {}
                  rows == UnionAllLimit1(newRows, SelectByPhone(snap[p], clinicID, Phone))
                  res == IF cause = ErrNil
                         THEN FindOrCreateGuest(rows)
                         ELSE FindOrCreateGuestFailed(cause)
              IN  /\ faults' = IF cause = ErrNil THEN faults ELSE faults - 1
                  /\ cause = ErrNil
                        => ~WriteWaits(p, Profile(p, clinicID, p, Phone, NULL, NULL, NULL,
                                                  ProfileStatusGuest))
                  /\ IF UpsertQuerier = "tx"
                     THEN /\ txw' = [txw EXCEPT ![p] = @ \cup newRows]
                          /\ logged' = logged \cup
                                           log_change(ConnOf(p), "INSERT", newRows, p)
                          /\ UNCHANGED <<profiles, persisted>>
                     ELSE /\ FreeConns # {}
                          /\ profiles' = profiles \cup newRows
                          /\ persisted' = [persisted EXCEPT ![p] = @ \cup newRows]
                          /\ logged' = logged \cup log_change(Acquire, "INSERT", newRows, p)
                          /\ UNCHANGED txw
                  /\ IF call[p].op = "Guest"
                     THEN /\ profile' = [profile EXCEPT ![p] =
                                            IF res.err = ErrNil THEN res.profile ELSE @]
                          /\ FnReturns(p, res.err)
                          /\ UNCHANGED existing
                     ELSE /\ existing' = [existing EXCEPT ![p] = res.profile]
                          /\ IF res.err = ErrNil
                             THEN /\ pc' = [pc EXCEPT ![p] = "reg_check"]
                                  /\ UNCHANGED <<fnRet, err>>
                             ELSE FnReturns(p, Wrap("failed during profile lookup",
                                                    res.err))
                          /\ UNCHANGED profile
        /\ UNCHANGED <<auth, connOwner, connAudit, call, tx, fin, listed>>

\* The status line writing to `existing`, the profile that is then updated,
\* whatever its status.
RegisterSetStatus_Existing(prof, exist) ==
    [panic |-> FALSE, profile |-> prof,
     existing |-> [exist EXCEPT !.status = ProfileStatusRegistered]]

\* profile.ProfileStatus = model.ProfileStatusRegistered in RegisterNewPatient:
\* `profile` is the method's own variable, a nil *model.Profile until fn's last
\* lines assign it, and a store through a nil pointer panics; `existing` is not
\* touched.
RegisterSetStatus(prof, exist) ==
    IF prof = Nil
    THEN [panic |-> TRUE, profile |-> prof, existing |-> exist]
    ELSE [panic |-> FALSE, existing |-> exist,
          profile |-> [prof EXCEPT !.status = ProfileStatusRegistered]]

\* if profile.ProfileStatus == model.ProfileStatusGuest { profile.ProfileStatus =
\* model.ProfileStatusRegistered } in CompleteGuestRegistration: a load through
\* the same nil pointer.
CompleteSetStatus(prof, exist) ==
    IF prof = Nil
    THEN [panic |-> TRUE, profile |-> prof, existing |-> exist]
    ELSE [panic |-> FALSE, existing |-> exist,
          profile |-> IF prof.status = ProfileStatusGuest
                      THEN [prof EXCEPT !.status = ProfileStatusRegistered]
                      ELSE prof]

\* The last lines of both fns: unless the status lines panicked,
\* updatedProfile, updateErr := s.upsertProfile(ctx, tx, existing, req);
\* profile = updatedProfile; return updateErr.
UpdateAndReturn(p, s) ==
    IF s.panic
    THEN /\ FnPanics(p)
         /\ UNCHANGED <<txw, profile, logged>>
    ELSE LET u == upsertProfile(TxView(p), s.existing, p)
         IN  /\ ~WriteWaits(p, ApplyRequest(s.existing, p))
             /\ txw' = [txw EXCEPT ![p] = Overlay(@, u.written)]
             /\ logged' = logged \cup log_change(ConnOf(p), "UPDATE", u.written, p)
             /\ profile' = [profile EXCEPT ![p] = u.profile]
             /\ FnReturns(p, u.err)

\* The conflict check comparing with the wrong status.
AlreadyRegistered_Guest(exist) == exist.status = ProfileStatusGuest

\* if existing.ProfileStatus == model.ProfileStatusRegistered: the conflict check
\* of RegisterNewPatient.
AlreadyRegistered(exist) == exist.status = ProfileStatusRegistered

\* RegisterNewPatient's fn after the lookup: the conflict check, the status
\* line, the update.
RegisterAfterLookup(p) ==
    /\ pc[p] = "reg_check"
    /\ IF AlreadyRegistered(existing[p])
       THEN /\ FnReturns(p, NewBadRequest(ErrNil))
            /\ UNCHANGED <<txw, profile, logged>>
       ELSE UpdateAndReturn(p, RegisterSetStatus(profile[p], existing[p]))
    /\ UNCHANGED <<auth, profiles, connOwner, connAudit, call, tx, fin, snap, existing,
                   listed, persisted, faults>>

\* The querier CompleteGuestRegistration's fn hands to FindByID: s.db, the
\* pool, not the tx of the fn.
FindQuerier == "pool"

\* The connection the fetch runs on: the transaction's own, or one acquired
\* from the pool for the statement (none while the pool is empty).
FindConns(p) ==
    IF FindQuerier = "tx" THEN {ConnOf(p)}
    ELSE IF FreeConns # {} THEN {Acquire} ELSE {}

\* CompleteGuestRegistration's fn: s.repo.FindByID(ctx, s.db, req.ClinicID,
\* req.ProfileID) reads through the pool, on a second connection, what is
\* committed.
CompleteFind(p) ==
    /\ pc[p] = "find"
    /\ FindConns(p) # {}
    /\ \E cause \in {ErrNil} \cup (IF faults > 0 THEN StatementFailures ELSE {}) :
          LET res == IF cause = ErrNil
                     THEN FindByID(IF FindQuerier = "tx" THEN TxView(p) ELSE profiles,
                                   call[p].clinic, call[p].target)
                     ELSE FindByIDFailed(cause)
          IN  /\ faults' = IF cause = ErrNil THEN faults ELSE faults - 1
              /\ existing' = [existing EXCEPT ![p] = res.profile]
              /\ IF res.err = ErrNil
                 THEN /\ pc' = [pc EXCEPT ![p] = "complete_check"]
                      /\ UNCHANGED <<fnRet, err>>
                 ELSE FnReturns(p, res.err)
    /\ UNCHANGED <<auth, profiles, txw, connOwner, connAudit, call, tx, fin, snap,
                   profile, listed, persisted, logged>>

\* CompleteGuestRegistration's fn after the fetch: the status lines, the update.
CompleteAfterFind(p) ==
    /\ pc[p] = "complete_check"
    /\ UpdateAndReturn(p, CompleteSetStatus(profile[p], existing[p]))
    /\ UNCHANGED <<auth, profiles, connOwner, connAudit, call, tx, fin, snap, existing,
                   listed, persisted, faults>>

\* The repository's Create, called with the pool: one INSERT, committed on its
\* own; a unique violation (23505) is a bad request.  The profile an employee
\* invitation inserts (CreateInvitedEmployee) is the REGISTERED case of it.
Create(p) ==
    LET row == Profile(p, call[p].clinic, p, CreatePhone(p), CreateEmail(p), NULL, NULL,
                       call[p].status)
        dup == UniqueViolation(profiles, row)
    IN  /\ pc[p] = "create"
        /\ FreeConns # {}
        /\ ~WriteWaits(p, row)
        /\ profiles' = IF dup THEN profiles ELSE profiles \cup {row}
        /\ persisted' = [persisted EXCEPT ![p] = IF dup THEN {} ELSE {row}]
        /\ logged' = logged \cup log_change(Acquire, "INSERT", IF dup THEN {} ELSE {row}, p)
        /\ err' = [err EXCEPT ![p] = IF dup THEN NewBadRequest(<<"23505">>) ELSE ErrNil]
        /\ pc' = [pc EXCEPT ![p] = "done"]
        /\ UNCHANGED <<auth, txw, connOwner, connAudit, call, tx, fin, snap, existing,
                       profile, listed, fnRet, faults>>

\* GetProfileByID: s.repo.FindByID(ctx, s.db, clinicID, profileID), through the
\* pool.
GetProfileByID(p) ==
    LET res == FindByID(profiles, call[p].clinic, call[p].target)
    IN  /\ pc[p] = "get"
        /\ FreeConns # {}
        /\ profile' = [profile EXCEPT ![p] = res.profile]
        /\ err' = [err EXCEPT ![p] = res.err]
        /\ pc' = [pc EXCEPT ![p] = "done"]
        /\ UNCHANGED <<auth, profiles, txw, connOwner, connAudit, call, tx, fin, snap,
                       existing, listed, fnRet, persisted, faults, logged>>

\* ListProfiles: s.repo.List(ctx, s.db, clinicID, offset, pageSize), through the
\* pool.
ListProfiles(p) ==
    /\ pc[p] = "list"
    /\ FreeConns # {}
    /\ listed' = [listed EXCEPT ![p] = List(profiles, call[p].clinic)]
    /\ err' = [err EXCEPT ![p] = ErrNil]
    /\ pc' = [pc EXCEPT ![p] = "done"]
    /\ UNCHANGED <<auth, profiles, txw, connOwner, connAudit, call, tx, fin, snap, existing,
                   profile, fnRet, persisted, faults, logged>>

\* ------------------------------------------------------------ specification
Next ==
    \E p \in Calls :
        \/ Start(p)
        \/ Begin(p)
        \/ InjectAuditContext(p)
        \/ UpsertBegin(p)
        \/ UpsertExec(p)
        \/ RegisterAfterLookup(p)
        \/ CompleteFind(p)
        \/ CompleteAfterFind(p)
        \/ Commit(p)
        \/ DeferredGuard(p)
        \/ GetProfileByID(p)
        \/ ListProfiles(p)
        \/ Create(p)

Spec == Init /\ [][Next]_vars

\* The same calls, every statement of theirs answered without failure, on a
\* table that starts with the soft-deleted profile.
SoftDeletedSpec == SoftDeletedInit /\ [][Next]_vars

\* ------------------------------------------------- the login (AuthPayload)
NumRoles == 3
NumKeys == 2
RoleIDs == 1..NumRoles
PermissionKeys == {"k" \o ToString(k) : k \in 1..NumKeys}

\* The sequences that hold each element of S once, in any order: the order of
\* rows without ORDER BY, and of a range over a Go map.
Orders(S) ==
    {f \in [1..Cardinality(S) -> S] : \A i, j \in 1..Cardinality(S) : f[i] = f[j] => i = j}

\* The rows of FindRolesForEmployee's query: roles JOIN user_roles, LEFT JOIN
\* role_permissions and permissions; a role without permission gives one row
\* whose permission columns are NULL.
JoinRows(assigned, rolePerms) ==
    (UNION {{[role |-> r, pKey |-> k] : k \in rolePerms[r]} : r \in assigned})
    \cup {[role |-> r, pKey |-> NULL] : r \in {x \in assigned : rolePerms[x] = {}}}

\* One turn of the rows.Next() loop: the role enters roleMap with no permission
\* the first time its id is met, and a valid permission is appended to it.
ScanOne(roleMap, row) ==
    [ids |-> roleMap.ids \cup {row.role},
     permissions |-> [roleMap.permissions EXCEPT ![row.role] =
                        IF row.pKey # NULL THEN Append(@, row.pKey) ELSE @]]

\* The roles of roleMap, as model.Role values.
RolesOf(roleMap) ==
    {[id |-> r, permissions |-> roleMap.permissions[r]] : r \in roleMap.ids}

\* roleIDs[i] = role.ID
RoleIDsOf(roles) == [i \in 1..Len(roles) |-> roles[i].id]

\* permissionSet[p.PermissionKey] = struct{}{} for every permission of every
\* role: a key is in the map once.
PermissionSet(roles) ==
    UNION {{roles[i].permissions[j] : j \in 1..Len(roles[i].permissions)} :
              i \in 1..Len(roles)}

RECURSIVE Flatten(_)
Flatten(roles) ==
    IF roles = << >> THEN << >> ELSE Head(roles).permissions \o Flatten(Tail(roles))

\* The permissions appended role after role, without the map.
PermissionLists_Flat(roles) == {Flatten(roles)}

\* permissions: the keys of permissionSet, in the order the range gives them.
PermissionLists(roles) == Orders(PermissionSet(roles))

\* security.NewAuthPayload(e.ProfileID, e.ClinicID, roleIDs, permissions, duration)
NewAuthPayload(roleIDs, permissions) == [roleIDs |-> roleIDs, permissions |-> permissions]

\* An employee with any roles assigned, each role with any permissions, logs
\* in: the query has returned its rows.
AuthInit ==
    \E assigned \in SUBSET RoleIDs : \E rolePerms \in [RoleIDs -> SUBSET PermissionKeys] :
        InitWith({}, 0,
                 [stage |-> "scan", assigned |-> assigned, rolePerms |-> rolePerms,
                  rows |-> JoinRows(assigned, rolePerms),
                  roleMap |-> [ids |-> {}, permissions |-> [r \in RoleIDs |-> << >>]],
                  roles |-> << >>, payload |-> Nil])

\* FindRolesForEmployee: for rows.Next() { ... }, the rows in any order.
ScanRow ==
    /\ auth.stage = "scan"
    /\ \E row \in auth.rows :
          auth' = [auth EXCEPT !.rows = @ \ {row}, !.roleMap = ScanOne(@, row)]
    /\ UNCHANGED svars

\* FindRolesForEmployee: the roles of roleMap appended to the slice returned,
\* in the order of the range over the map; employee.Roles = roles.
ReturnRoles ==
    /\ auth.stage = "scan"
    /\ auth.rows = {}
    /\ \E roles \in Orders(RolesOf(auth.roleMap)) :
          auth' = [auth EXCEPT !.stage = "loaded", !.roles = roles]
    /\ UNCHANGED svars

\* Employee.ToAuthPayload
ToAuthPayload ==
    /\ auth.stage = "loaded"
    /\ \E permissions \in PermissionLists(auth.roles) :
          auth' = [auth EXCEPT !.stage = "done",
                               !.payload = NewAuthPayload(RoleIDsOf(auth.roles), permissions)]
    /\ UNCHANGED svars

AuthNext == ScanRow \/ ReturnRoles \/ ToAuthPayload

AuthSpec == AuthInit /\ [][AuthNext]_vars

\* The next step of a call that was started.  Waiting for a connection of the
\* pool or for a row lock is a step that cannot be taken yet; a statement that
\* was sent is answered, so every other step can be taken.
Step(p) ==
    \/ Begin(p) \/ InjectAuditContext(p) \/ Commit(p) \/ DeferredGuard(p)
    \/ UpsertBegin(p) \/ UpsertExec(p) \/ RegisterAfterLookup(p)
    \/ CompleteFind(p) \/ CompleteAfterFind(p)
    \/ Create(p) \/ GetProfileByID(p) \/ ListProfiles(p)

\* A call that was started and has not returned.
Running(p) == pc[p] \notin {"idle", "done"}

\* -------------------------------------------------------------- properties
Done(p) == pc[p] = "done"
HasLayer(e, layer) == \E i \in 1..Len(e) : e[i] = layer
NoFaultInjected == faults = MaxFaults
GuestRows(clinic) == {r \in profiles : PhoneKey(r, clinic, Phone)}

\* C1: concurrent FindOrCreateGuestForBooking calls with one (tenant, phone)
\* leave exactly one active row of that key, and each of them returns a profile
\* with that row's identifier (no database failure being involved).
C1_UpsertConverges ==
    \A p, q \in Calls :
        (/\ p # q
         /\ call[p].op = "Guest" /\ call[q].op = "Guest"
         /\ call[p].clinic = call[q].clinic
         /\ Done(p) /\ Done(q)
         /\ NoFaultInjected)
        => /\ err[p] = ErrNil /\ err[q] = ErrNil
           /\ profile[p] # Nil /\ profile[q] # Nil
           /\ profile[p].id = profile[q].id
           /\ Cardinality(GuestRows(call[p].clinic)) = 1

\* C2: the upsert statement never returns an empty result: no call of
\* FindOrCreateGuest ends in its pgx.ErrNoRows branch.
C2_NoRowsUnreachable ==
    \A p \in Calls :
        call[p].op \in {"Guest", "Register"} => ~HasLayer(err[p], "pgx.ErrNoRows")

IsError(e) == e \notin {ErrNil, NotRun, Pending, Panic}

\* What ExecTx returns when the context ends while the COMMIT is in flight.
CommitCanceled ==
    CommitFailed(ErrCanceled)

\* C3: a transaction that was begun is finalized exactly once on every way out
\* of ExecTx (return of nil, error of fn, failed audit statement, failed commit,
\* panic): it is open with nothing done, or closed by one commit or one rollback,
\* and closed when ExecTx is left.  After a commit the deferred rollback changes
\* nothing: the committed rows stay and ExecTx returns what tx.Commit returned
\* (nil, or the context's error when the caller stopped waiting for the commit).
C3_ExactlyOneFinalization ==
    \A p \in Calls :
        /\ Len(fin[p]) <= 1
        /\ tx[p] = "open" => fin[p] = << >>
        /\ tx[p] = "closed" => Len(fin[p]) = 1
        /\ (Done(p) /\ tx[p] # "none") => tx[p] = "closed"
        /\ (Done(p) /\ fin[p] = <<"commit">>)
              => /\ err[p] \in {ErrNil, CommitCanceled}
                 /\ \A r \in persisted[p] : \E c \in profiles : c.id = r.id

\* Three calls left ExecTx: one committed, one with an error of fn, one by a panic.
C3_Witness ==
    \E p, q, r \in Calls :
        /\ Done(p) /\ Done(q) /\ Done(r)
        /\ fin[p] = <<"commit">> /\ err[p] = ErrNil /\ persisted[p] # {}
        /\ fin[q] = <<"rollback">> /\ IsError(fnRet[q])
        /\ fin[r] = <<"rollback">> /\ err[r] = Panic

\* C4: when fn returns an error e, no commit is attempted, the transaction is
\* rolled back with nothing of it made durable, and ExecTx returns e itself.
C4_FnErrorRollsBack ==
    \A p \in Calls :
        IsError(fnRet[p])
        => /\ pc[p] \in {"defer", "done"}
           /\ err[p] = fnRet[p]
           /\ persisted[p] = {}
           /\ fin[p] \in {<< >>, <<"rollback">>}
           /\ Done(p) => (fin[p] = <<"rollback">> /\ txw[p] = {})

\* A call has returned the error of its fn (the conflict of RegisterNewPatient).
C4_Witness ==
    \E p \in Calls :
        /\ Done(p)
        /\ fnRet[p] = NewBadRequest(ErrNil)
        /\ err[p] = fnRet[p]
        /\ fin[p] = <<"rollback">>

\* C5: when fn panics, the panic is raised again only with the transaction
\* rolled back: nothing of it is durable and its connection is back in the pool.
C5_PanicRollsBack ==
    \A p \in Calls :
        err[p] = Panic
        => /\ fin[p] = <<"rollback">>
           /\ tx[p] = "closed"
           /\ txw[p] = {}
           /\ persisted[p] = {}
           /\ \A r \in profiles : r.id # p
           /\ \A c \in Conns : connOwner[c] # p

\* After a panic that followed an insert, every connection of the pool, so also
\* the one the panicked call held, is held by a later transaction.
C5_Witness ==
    \E p \in Calls :
        /\ err[p] = Panic
        /\ existing[p] # Nil /\ existing[p].id = p
        /\ \A c \in Conns : connOwner[c] \notin {0, p}

\* C7: a FindOrCreateGuestForBooking, RegisterNewPatient or
\* CompleteGuestRegistration that ends in an error (or a panic) has made nothing
\* durable: no row version of it is committed, and the row its upsert inserted
\* is not in the table.
C7_NoPartialWrites ==
    \A p \in Calls :
        (Done(p) /\ call[p].op \in {"Guest", "Register", "Complete"} /\ err[p] # ErrNil)
        => /\ persisted[p] = {}
           /\ \A r \in profiles : r.id # p

\* C8: FindByID, List, the guest upsert and Update read and write rows of the
\* caller's tenant only, and one phone number under two tenants is two profiles.
C8_TenantIsolation ==
    /\ \A p \in Calls :
          /\ profile[p] # Nil => profile[p].clinic = call[p].clinic
          /\ existing[p] # Nil => existing[p].clinic = call[p].clinic
          /\ \A r \in listed[p] \cup txw[p] \cup persisted[p] : r.clinic = call[p].clinic
    /\ \A t \in Tenants : \A r \in profiles :
          r.clinic # t
          => /\ FindByID(profiles, t, r.id).profile = Nil
             /\ r \notin List(profiles, t)
             /\ Update(profiles, [r EXCEPT !.clinic = t]).written = {}
    /\ \A p, q \in Calls :
          (/\ call[p].op = "Guest" /\ call[q].op = "Guest"
           /\ call[p].clinic # call[q].clinic
           /\ Done(p) /\ Done(q) /\ err[p] = ErrNil /\ err[q] = ErrNil)
          => profile[p].id # profile[q].id

\* Both tenants upserted a guest with the one phone number, and a lookup of the
\* one tenant's profile under the other tenant found nothing.
C8_Witness ==
    \E p, q, g \in Calls :
        /\ call[p].op = "Guest" /\ call[q].op = "Guest"
        /\ call[p].clinic # call[q].clinic
        /\ Done(p) /\ Done(q) /\ err[p] = ErrNil /\ err[q] = ErrNil
        /\ profile[p].phone = profile[q].phone
        /\ call[g].op = "Get" /\ call[g].clinic = call[q].clinic
        /\ call[g].target = profile[p].id
        /\ Done(g) /\ err[g] = NewNotFound(ErrNoRows)

Backward(old, new) ==
    \/ old = ProfileStatusRegistered /\ new = ProfileStatusGuest
    \/ old = ProfileStatusArchived /\ new \in {ProfileStatusGuest, ProfileStatusRegistered}

\* C9: the status of a profile only moves forward: no step takes a committed
\* row from REGISTERED to GUEST or from ARCHIVED to GUEST or REGISTERED.
C9_StatusForwardOnly ==
    [][\A r \in profiles : \A n \in profiles' :
           n.id = r.id => ~Backward(r.status, n.status)]_vars

\* A registration and a completion have both run to their end on an ARCHIVED
\* profile, which is still ARCHIVED.
C9_Witness ==
    \E r \in profiles : \E p, q \in Calls :
        /\ r.status = ProfileStatusArchived
        /\ call[p].op = "Register" /\ Done(p)
        /\ existing[p] # Nil /\ existing[p].id = r.id
        /\ call[q].op = "Complete" /\ Done(q)
        /\ existing[q] # Nil /\ existing[q].id = r.id

\* C10: CompleteGuestRegistration on a GUEST profile of the caller's tenant
\* succeeds, the first time and again, and the profile is REGISTERED after it
\* (no database failure being involved).
C10_CompleteIsIdempotent ==
    \A p \in Calls :
        (/\ call[p].op = "Complete"
         /\ Done(p)
         /\ NoFaultInjected
         /\ \E r \in profiles :
               /\ r.id = call[p].target /\ r.clinic = call[p].clinic
               /\ r.status \in {ProfileStatusGuest, ProfileStatusRegistered})
        => /\ err[p] = ErrNil
           /\ \A r \in profiles :
                 r.id = call[p].target => r.status = ProfileStatusRegistered

\* C11: a RegisterNewPatient whose lookup finds the REGISTERED profile of its
\* (tenant, phone) returns a bad request (the conflict), and inserts and
\* modifies no row.
C11_RegisterConflict ==
    \A p \in Calls :
        (/\ call[p].op = "Register"
         /\ Done(p)
         /\ existing[p] # Nil
         /\ existing[p].status = ProfileStatusRegistered)
        => /\ err[p] = NewBadRequest(ErrNil)
           /\ profile[p] = Nil
           /\ persisted[p] = {}
           /\ txw[p] = {}
           /\ \A r \in profiles : r.id # p
           /\ existing[p] \in profiles

\* A registration met the committed REGISTERED profile of its key and was
\* rejected.
C11_Witness ==
    \E p \in Calls : \E r \in profiles :
        /\ call[p].op = "Register" /\ Done(p)
        /\ PhoneKey(r, call[p].clinic, Phone)
        /\ r.status = ProfileStatusRegistered
        /\ existing[p] = r
        /\ err[p] = NewBadRequest(ErrNil)

\* C12: of two FindOrCreateGuestForBooking calls with one (tenant, phone), the
\* second made after the first returned its profile, the second succeeds too and
\* returns the same profile, with the identifier and the name the first
\* returned and not its own name; that profile is the stored row.  The row a
\* call inserted is a GUEST with that call's name (no database failure being
\* involved).
C12_InsertWinsAndSelect ==
    \A p, q \in Calls :
        (/\ call[p].op = "Guest" /\ call[q].op = "Guest"
         /\ call[p].clinic = call[q].clinic
         /\ p \in call[q].after
         /\ err[p] = ErrNil
         /\ Done(q)
         /\ NoFaultInjected)
        => /\ err[q] = ErrNil
           /\ profile[q] = profile[p]
           /\ profile[q].name # q
           /\ profile[q] \in profiles
           /\ profile[p].id = p
                 => (profile[p].name = p /\ profile[p].status = ProfileStatusGuest)

\* The first call inserted the profile, the second, made after it, returned it.
C12_Witness ==
    \E p, q \in Calls :
        /\ call[p].op = "Guest" /\ call[q].op = "Guest"
        /\ call[p].clinic = call[q].clinic
        /\ p \in call[q].after
        /\ Done(q) /\ err[p] = ErrNil /\ err[q] = ErrNil
        /\ profile[p].id = p /\ profile[p].name = p
        /\ profile[q] = profile[p]
        /\ profile[p] \in profiles

\* C13: in every reachable state the table holds at most one active profile
\* per (tenant, phone) and at most one per (tenant, email), and no identifier
\* twice.
C13_UniqueActiveContact ==
    \A r1, r2 \in profiles :
        (r1 # r2 /\ Active(r1) /\ Active(r2))
        => /\ r1.id # r2.id
           /\ r1.clinic = r2.clinic
                 => /\ (r1.phone = NULL \/ r1.phone # r2.phone)
                    /\ (r1.email = NULL \/ r1.email # r2.email)

\* A tenant has a profile with the phone and another with the email, and a
\* Create with that email and no phone was rejected as a duplicate.
C13_Witness ==
    \E p \in Calls : \E r1, r2 \in profiles :
        /\ r1.clinic = call[p].clinic /\ r2.clinic = call[p].clinic
        /\ r1.phone = Phone /\ r1.email = NULL
        /\ r2.phone = NULL /\ r2.email = ReqEmail(p)
        /\ call[p].op = "Create" /\ call[p].contact = "email"
        /\ Done(p) /\ err[p] = NewBadRequest(<<"23505">>)

FnPcs == {"upsert", "upsert_exec", "reg_check", "find", "complete_check"}
BeginErr == Wrap("tx_manager: failed to begin transaction", ErrDB)
AuditErr ==
    Wrap("tx_manager: failed to set audit context (audit log integrity risk)", ErrDB)
IsAuditErr(e) ==
    e # << >> /\ e[1] = "tx_manager: failed to set audit context (audit log integrity risk)"
CommitErr == CommitFailed(ErrDB)

\* C14: fn runs if and only if the begin succeeded and the context has no
\* AuthPayload or the statement setting the audit context succeeded: while fn
\* runs the transaction is open and, for a call with an AuthPayload, its
\* connection carries the call's audit context; a call that left ExecTx with a
\* transaction begun and no audit failure has run fn; and when the audit
\* statement fails fn is not called, the transaction is rolled back and the
\* error is returned.
C14_FnRunsIffAuditSet ==
    \A p \in Calls :
        /\ pc[p] \in FnPcs
              => /\ tx[p] = "open"
                 /\ HasActor(p) => connAudit[ConnOf(p)] = p
        /\ fnRet[p] # NotRun => (tx[p] # "none" /\ err[p] # BeginErr /\ ~IsAuditErr(err[p]))
        /\ (Done(p) /\ tx[p] # "none" /\ ~IsAuditErr(err[p])) => fnRet[p] # NotRun
        /\ IsAuditErr(err[p])
              => /\ HasActor(p)
                 /\ fnRet[p] = NotRun
                 /\ persisted[p] = {}
                 /\ Done(p) => (fin[p] = <<"rollback">> /\ tx[p] = "closed")

\* One call with an AuthPayload left ExecTx on the failed audit statement without
\* running fn; fn of another ran with the audit context of its call set, and fn
\* of a call without AuthPayload ran too.
C14_Witness ==
    \E p, q, r \in Calls :
        /\ Done(p) /\ err[p] = AuditErr /\ fnRet[p] = NotRun /\ fin[p] = <<"rollback">>
        /\ HasActor(q) /\ pc[q] \in FnPcs /\ connAudit[ConnOf(q)] = q
        /\ ~HasActor(r) /\ call[r].op = "Guest" /\ fnRet[r] = ErrNil

\* C15: the audit context lasts as long as the transaction that set it: an idle
\* connection carries none, a connection in use carries none or that of the
\* call holding it, and every audit record the trigger builds names no user
\* or the call whose statement wrote the row, never a user when that call has no
\* AuthPayload.
C15_AuditScopedToTx ==
    /\ \A c \in Conns :
          /\ connOwner[c] = 0 => connAudit[c] = 0
          /\ connAudit[c] \in {0, connOwner[c]}
    /\ \A e \in logged :
          /\ e.user \in {0, e.call}
          /\ ~HasActor(e.call) => e.user = 0

\* A transaction with an AuthPayload wrote a row on a connection and ended; a
\* later transaction without AuthPayload wrote on the same connection, and its
\* audit record names no user.
C15_Witness ==
    \E e1, e2 \in logged :
        /\ e1.conn = e2.conn
        /\ e1.user = e1.call /\ HasActor(e1.call) /\ tx[e1.call] = "closed"
        /\ e1.call \in call[e2.call].after
        /\ call[e2.call].op = "Guest"
        /\ e2.user = 0

\* C16: a call of ExecTx whose context was cancelled (or whose deadline passed)
\* after Begin and before tx.Commit returned has returned an error, its
\* transaction was rolled back and nothing of it is committed, the transaction
\* is closed and its connection is back in the pool.
C16_CancellationRollsBack ==
    \A p \in Calls :
        (Done(p) /\ HasLayer(err[p], "context canceled"))
        => /\ err[p] # ErrNil
           /\ fin[p] = <<"rollback">>
           /\ persisted[p] = {}
           /\ tx[p] = "closed"
           /\ \A c \in Conns : connOwner[c] # p

\* The handlers' mapping of a service error to the response: errors.As finds
\* the outermost *apierror.APIError of the chain; a chain without one becomes
\* an internal server error.
RECURSIVE HandlerAPIError(_)
HandlerAPIError(e) ==
    IF e = << >> THEN "api500"
    ELSE IF Head(e) \in {"api400", "api404", "api500"} THEN Head(e)
    ELSE HandlerAPIError(Tail(e))

\* The table as p's update meets it when the row p looked up is no longer there.
RowGone(p) == {r \in TxView(p) : r.id # existing[p].id}

\* C17: when the update of RegisterNewPatient or CompleteGuestRegistration
\* matches no row (the profile it looked up is gone by the time the update
\* runs), the caller receives the NotFound (404) failure and not an internal
\* server error.
C17_ZeroRowUpdateIsNotFound ==
    \A p \in Calls :
        (pc[p] \in {"reg_check", "complete_check"} /\ existing[p] # Nil
            /\ UpdateTargets(RowGone(p), existing[p]) = {})
        => HandlerAPIError(upsertProfile(RowGone(p), existing[p], p).err) = "api404"

\* C18: a guest upsert whose insert violates a constraint other than the
\* uniqueness of (clinic, phone) (here the foreign key of clinic_id) returns no
\* profile and reports a bad request to its caller, not an internal failure.
C18_OtherConstraintIsBadRequest ==
    \A p \in Calls :
        (Done(p) /\ call[p].op = "Guest" /\ HasLayer(err[p], "23503"))
        => /\ profile[p] = Nil
           /\ HandlerAPIError(err[p]) = "api400"

\* C19: when fn returned nil and the commit failed, ExecTx returns a non-nil
\* error that wraps the commit's error, and the transaction is closed; ExecTx
\* returns nil only after a commit that succeeded, whose rows are in the table.
C19_CommitFailureIsReturned ==
    \A p \in Calls :
        (Done(p) /\ tx[p] # "none")
        => /\ (fnRet[p] = ErrNil /\ fin[p] # <<"commit">>) => err[p] # ErrNil
           /\ (fnRet[p] = ErrNil /\ err[p] # ErrNil)
                 => /\ \E cause \in StatementFailures :
                          err[p] = <<"tx_manager: failed to commit transaction">> \o cause
                    /\ tx[p] = "closed" /\ Len(fin[p]) = 1
           /\ err[p] = ErrNil
                 => /\ fnRet[p] = ErrNil /\ fin[p] = <<"commit">>
                    /\ \A r \in persisted[p] : \E c \in profiles : c.id = r.id

\* One call whose fn returned nil and whose commit failed, one that committed.
C19_Witness ==
    \E p, q \in Calls :
        /\ Done(p) /\ fnRet[p] = ErrNil /\ fin[p] = <<"rollback">>
        /\ err[p] = <<"tx_manager: failed to commit transaction", "db">>
        /\ Done(q) /\ fnRet[q] = ErrNil /\ fin[q] = <<"commit">> /\ err[q] = ErrNil
        /\ persisted[q] # {}

\* C20: a RegisterNewPatient whose (tenant, phone) had no profile or a GUEST one
\* (its lookup returned a row that is not REGISTERED), with no database failure
\* involved, succeeds: the key has exactly one profile, which is REGISTERED and
\* carries the request's name, email, national id and date of birth, and the
\* profile returned is that row.
C20_RegisterSucceeds ==
    \A p \in Calls :
        (/\ call[p].op = "Register"
         /\ Done(p)
         /\ NoFaultInjected
         /\ existing[p] # Nil
         /\ ~AlreadyRegistered(existing[p]))
        => /\ err[p] = ErrNil
           /\ profile[p] # Nil
           /\ {r \in profiles : PhoneKey(r, call[p].clinic, Phone)} = {profile[p]}
           /\ profile[p].status = ProfileStatusRegistered
           /\ profile[p].name = ReqFullName(p)
           /\ profile[p].email = ReqEmail(p)
           /\ profile[p].nid = ReqNationalID(p)
           /\ profile[p].dob = ReqDateOfBirth(p)

\* C21: a CompleteGuestRegistration that found a non-deleted profile of the
\* caller's tenant, with no database failure involved, succeeds: the persisted
\* row is REGISTERED (a GUEST row became so, a REGISTERED row stayed so) and
\* carries the supplied name, email, national id and date of birth.
C21_CompletePersistsFields ==
    \A p \in Calls :
        (/\ call[p].op = "Complete"
         /\ Done(p)
         /\ NoFaultInjected
         /\ existing[p] # Nil)
        => /\ err[p] = ErrNil
           /\ \E r \in profiles :
                 /\ r.id = call[p].target /\ r.clinic = call[p].clinic
                 /\ r.status = ProfileStatusRegistered
                 /\ r.name = ReqFullName(p) /\ r.email = ReqEmail(p)
                 /\ r.nid = ReqNationalID(p) /\ r.dob = ReqDateOfBirth(p)

\* StatusCode of the APIError the handler returns.
StatusCode(e) ==
    CASE HandlerAPIError(e) = "api400" -> 400
      [] HandlerAPIError(e) = "api404" -> 404
      [] OTHER -> 500

\* The response carrying the error's own text, err.Error().
PublicMessage_Internal(e) == e

\* PublicMessage of the APIError the handler returns (a text is the sequence of
\* its parts, as the errors are): the text fixed by the
\* factory function or given at the call site (part_001:58 passes no internal
\* error, part_000:76 passes the driver's), never the wrapped error.
RECURSIVE PublicMessage(_)
PublicMessage(e) ==
    IF e = << >> THEN <<"An unexpected error occurred on the server.">>
    ELSE IF Head(e) = "api500" THEN <<"An unexpected error occurred on the server.">>
    ELSE IF Head(e) = "api404" THEN <<"The requested resource 'profile' was not found.">>
    ELSE IF Head(e) = "api400"
         THEN IF Tail(e) = << >>
              THEN <<"A registered patient with this phone number already exists.">>
              ELSE <<"A patient with this phone number or email already exists in this clinic.">>
    ELSE PublicMessage(Tail(e))

\* ErrorHandler: c.AbortWithStatusJSON(err.StatusCode, {"error": {"message":
\* err.PublicMessage, "code": err.StatusCode}}).
ErrorHandler(e) ==
    [status |-> StatusCode(e), message |-> PublicMessage(e), code |-> StatusCode(e)]

Layers(e) == {e[i] : i \in 1..Len(e)}

\* An error the handler treats as internal: no typed 400 or 404 in front.
Internal(e) == IsError(e) /\ HandlerAPIError(e) = "api500"

\* C22: every internal failure (the upsert finding no row, the audit statement
\* failing, any error that is not a typed one) reaches the HTTP caller as the
\* same response: status 500 and the generic message, equal for any two such
\* errors and holding none of the error's own text.
C22_InternalErrorsAreGeneric ==
    LET failed == {p \in Calls : Done(p) /\ Internal(err[p])}
        responses == {ErrorHandler(err[p]) : p \in failed}
    IN  /\ \A r1, r2 \in responses : r1 = r2
        /\ \A r \in responses : r.status = 500
        /\ \A p \in failed : \A r \in responses :
              Layers(r.message) \cap Layers(err[p]) = {}

\* Two calls ended in internal errors of different detail: an upsert that found
\* no row and a failed audit statement.
C22_Witness ==
    \E p, q \in Calls :
        /\ Done(p) /\ Done(q) /\ Internal(err[p]) /\ Internal(err[q])
        /\ err[p] # err[q]
        /\ HasLayer(err[p], "pgx.ErrNoRows")
        /\ IsAuditErr(err[q])

\* C23: in CompleteGuestRegistration the fetch runs on the connection of the
\* operation's own transaction, as the update does: a call about to fetch
\* needs no other connection of the pool and is not held up by the pool.
C23_FetchInOwnTransaction ==
    \A p \in Calls :
        (pc[p] = "find" /\ tx[p] = "open")
        => /\ FindConns(p) # {}
           /\ \A c \in FindConns(p) : c = ConnOf(p)

\* C24: with the pool of PoolSize connections and any calls running together,
\* every call that was started returns, the database answering each statement:
\* no calls wait for ever for a connection of the pool.
\* Connections and row locks are held by running calls only, so running calls
\* none of which can take a step wait for ever: the state below must not occur.
C24_EveryCallReturns ==
    (\E p \in Calls : Running(p)) => (\E p \in Calls : Running(p) /\ ENABLED Step(p))

\* The conflict RegisterNewPatient returns for a REGISTERED profile.
Conflict == NewBadRequest(ErrNil)

\* C25: of two RegisterNewPatient calls running together on the same (tenant,
\* phone), with no database failure involved, at most one succeeds and the
\* other returns the conflict; a profile committed as REGISTERED by one is not
\* overwritten by the other.
C25_OneRegistrationWins ==
    \A p, q \in Calls :
        (/\ p # q
         /\ call[p].op = "Register" /\ call[q].op = "Register"
         /\ call[p].clinic = call[q].clinic
         /\ Done(p) /\ Done(q)
         /\ p \notin call[q].after /\ q \notin call[p].after
         /\ NoFaultInjected)
        => /\ {err[p], err[q]} \subseteq {ErrNil, Conflict}
           /\ ~(err[p] = ErrNil /\ err[q] = ErrNil)
           /\ \A r \in persisted[p] : \A t \in persisted[q] : r.id # t.id

\* C26: a guest upsert whose statement did not fail inserts a row if and only
\* if no non-deleted profile of its (tenant, phone) exists when it runs; when
\* one exists, of any status, nothing is inserted, the committed rows are left
\* as they are and that row is what the upsert returns; a row it inserts is a
\* GUEST whose email, national id and date of birth are unset.
C26_InsertIffAbsent ==
    [][\A p \in Calls :
         (pc[p] = "upsert_exec" /\ pc'[p] # "upsert_exec" /\ faults' = faults)
         => LET existed == SelectByPhone(TxView(p), call[p].clinic, Phone)
                inserted == txw'[p] \ txw[p]
                returned == IF call[p].op = "Guest" THEN profile'[p] ELSE existing'[p]
            IN  /\ (inserted # {}) <=> (existed = {})
                /\ profiles' = profiles
                /\ existed # {} => returned \in existed
                /\ \A r \in inserted :
                      /\ r.status = ProfileStatusGuest
                      /\ r.email = NULL /\ r.nid = NULL /\ r.dob = NULL
                      /\ returned = r]_vars

\* C27: a guest upsert whose statement did not fail returns exactly one row,
\* whether its insert took place or was discarded, and never a soft-deleted
\* one; when the only profiles of its (tenant, phone) are soft-deleted it
\* inserts a fresh GUEST row and returns that row.
C27_NeverSoftDeleted ==
    [][\A p \in Calls :
         (pc[p] = "upsert_exec" /\ pc'[p] # "upsert_exec" /\ faults' = faults)
         => LET clinicID == call[p].clinic
                matching == {r \in TxView(p) : r.clinic = clinicID /\ r.phone = Phone}
                inserted == txw'[p] \ txw[p]
                returned == IF call[p].op = "Guest" THEN profile'[p] ELSE existing'[p]
            IN  /\ returned # Nil
                /\ Active(returned)
                /\ (matching # {} /\ \A r \in matching : ~Active(r))
                      => /\ inserted # {}
                         /\ returned \in inserted
                         /\ returned.status = ProfileStatusGuest]_vars

\* The connections call p has checked out of the pool.
Held(p) == {c \in Conns : connOwner[c] = p}

\* C28: no connection outlives its transaction: a call holds one connection
\* while its transaction is open and none before Begin and after the commit or
\* the rollback, so that when ExecTx has returned or unwound (nil, error of fn,
\* failed audit statement, failed commit, panic) as many connections are
\* checked out as before the call; the connection is released once, by the step
\* that finalizes the transaction.
C28_ConnectionReleasedOnce ==
    [][/\ \A p \in Calls :
            /\ Cardinality(Held(p)') = IF tx'[p] = "open" THEN 1 ELSE 0
            /\ Done(p)' => Held(p)' = {}
            /\ \A c \in Held(p) :
                  connOwner'[c] # p
                  => /\ connOwner'[c] = 0
                     /\ tx'[p] = "closed"
                     /\ Len(fin'[p]) = Len(fin[p]) + 1
       /\ Cardinality({c \in Conns : connOwner'[c] # 0})
             = Cardinality({p \in Calls : tx'[p] = "open"})]_vars

\* Three calls have left ExecTx, by a commit, by a panic and by a failed audit
\* statement, and every connection is back in the pool.
C28_Witness ==
    \E p, q, r \in Calls :
        /\ Done(p) /\ Done(q) /\ Done(r)
        /\ fin[p] = <<"commit">> /\ err[p] = ErrNil
        /\ err[q] = Panic /\ fin[q] = <<"rollback">>
        /\ IsAuditErr(err[r]) /\ fin[r] = <<"rollback">>
        /\ \A c \in Conns : connOwner[c] = 0

\* The rows of audit_log: the trigger inserts its record in the transaction of
\* the statement that fired it, so a record is there when that statement ran
\* outside a transaction block or its transaction was committed.
AuditLog == {e \in logged : tx[e.call] = "none" \/ fin[e.call] = <<"commit">>}

\* C29: every row fn writes inside an ExecTx whose context carries an
\* AuthPayload is attributed to that actor: the audit context was set in the
\* transaction before the write, so the record the trigger builds names the
\* actor of the call; and a row of audit_log exists only for a change that is
\* committed.
C29_WritesAttributed ==
    /\ \A e \in logged :
          (HasActor(e.call) /\ tx[e.call] # "none") => e.user = e.call
    /\ \A e \in AuditLog : \E r \in persisted[e.call] : r.id = e.record

\* The insert of an authenticated registration was recorded under its actor and
\* went with the rollback; the insert of a committed guest upsert is in
\* audit_log.
C29_Witness ==
    \E e1, e2 \in logged :
        /\ HasActor(e1.call) /\ e1.user = e1.call /\ e1.action = "INSERT"
        /\ Done(e1.call) /\ fin[e1.call] = <<"rollback">> /\ e1 \notin AuditLog
        /\ e2 \in AuditLog /\ fin[e2.call] = <<"commit">>
        /\ \E r \in profiles : r.id = e2.record

\* C30: the AuthPayload computed for an employee holds exactly the permission
\* keys of the roles assigned, each key once, and one role id for each role
\* assigned, whatever permissions the roles share.
C30_EffectivePermissions ==
    auth.stage = "done"
    => LET expected == UNION {auth.rolePerms[r] : r \in auth.assigned}
           permissions == auth.payload.permissions
           roleIDs == auth.payload.roleIDs
       IN  /\ {permissions[i] : i \in 1..Len(permissions)} = expected
           /\ Len(permissions) = Cardinality(expected)
           /\ {roleIDs[i] : i \in 1..Len(roleIDs)} = auth.assigned
           /\ Len(roleIDs) = Cardinality(auth.assigned)

\* The payload of an employee with two roles that share a permission and
\* differ in another, and a third role without permission.
C30_Witness ==
    /\ auth.stage = "done"
    /\ \E r1, r2, r3 \in auth.assigned :
          /\ r1 # r2
          /\ auth.rolePerms[r1] \cap auth.rolePerms[r2] # {}
          /\ auth.rolePerms[r1] # auth.rolePerms[r2]
          /\ auth.rolePerms[r3] = {}

====
